---- MODULE Spec2Model ----
(***************************************************************************)
(* Model of test_case4 (IEEE_PES_GTD_case_study.py): the construction of   *)
(* the flexibility table of the CIGRE MV test network.                     *)
(*                                                                         *)
(* Powers are integers in watts (the source holds MW as floats), costs and *)
(* rounded draws are integers in thousandths, a random draw in [0,1) is an *)
(* integer numerator over DrawDen.  Tables are functions over the 0-based  *)
(* row labels 0..n-1, as the pandas RangeIndex of the source.              *)
(***************************************************************************)
EXTENDS Integers, Sequences, FiniteSets, TLC

VARIABLES pc, net, flexibility, rng, gen, cow, template, returned, err

vars == <<pc, net, flexibility, rng, gen, cow, template, returned, err>>

(***************************************************************************)
(* Bounds of the model.                                                    *)
(***************************************************************************)
\* how many times test_case4 is called in one Python process
MaxRuns == 2
\* the template's load and sgen tables have up to ExtraRows rows more or less
\* than the 18 and 9 rows the function assumes
ExtraRows == 1
\* the generator state left over from earlier calls is one of 0..MaxLeftover
MaxLeftover == 2
\* a draw in [0,1) is d / DrawDen with d in 0..DrawDen-1
DrawDen == 2000

(***************************************************************************)
(* Constants of the program.                                               *)
(***************************************************************************)
\* .round(3), lines 78, 85, 88
Decimals == 3
Milli == 10 ^ Decimals
\* line 19: *= 30
GenScale == 30
\* lines 67, 68
number_of_pvs == 0
number_of_box == 9

\* an unset cell of a DataFrame, and the float nan of 0/0
NaN == -(2 ^ 30)
NaNInfo == [nan |-> TRUE]

(***************************************************************************)
(* Small helpers on tables.                                                *)
(***************************************************************************)
NRows(t) == Cardinality(DOMAIN t)

Abs(x) == IF x < 0 THEN -x ELSE x

Max(a, b) == IF a < b THEN b ELSE a

Min(a, b) == IF a < b THEN a ELSE b

(***************************************************************************)
(* Line 13: pn.create_cigre_network_mv(with_der="pv_wind").  The load and  *)
(* sgen tables of the CIGRE MV benchmark network: p_mw = sn * cos(phi),    *)
(* q_mvar = sn * sin(phi), rounded to 10 W; bus is the bus index.          *)
(***************************************************************************)
CigreLoad ==
  << [p_mw |-> 14994000, q_mvar |-> 3044660, bus |-> 1],
     [p_mw |-> 276450, q_mvar |-> 69280, bus |-> 3],
     [p_mw |-> 431650, q_mvar |-> 108180, bus |-> 4],
     [p_mw |-> 727500, q_mvar |-> 182330, bus |-> 5],
     [p_mw |-> 548050, q_mvar |-> 137350, bus |-> 6],
     [p_mw |-> 586850, q_mvar |-> 147080, bus |-> 8],
     [p_mw |-> 475300, q_mvar |-> 119120, bus |-> 10],
     [p_mw |-> 329800, q_mvar |-> 82660, bus |-> 11],
     [p_mw |-> 14994000, q_mvar |-> 3044660, bus |-> 12],
     [p_mw |-> 208550, q_mvar |-> 52270, bus |-> 14],
     [p_mw |-> 4845000, q_mvar |-> 1592470, bus |-> 1],
     [p_mw |-> 225250, q_mvar |-> 139600, bus |-> 3],
     [p_mw |-> 76500, q_mvar |-> 47410, bus |-> 7],
     [p_mw |-> 573750, q_mvar |-> 355580, bus |-> 9],
     [p_mw |-> 68000, q_mvar |-> 42140, bus |-> 10],
     [p_mw |-> 5016000, q_mvar |-> 1648680, bus |-> 12],
     [p_mw |-> 34000, q_mvar |-> 21070, bus |-> 13],
     [p_mw |-> 331500, q_mvar |-> 205450, bus |-> 14] >>

CigreSgen ==
  << [p_mw |-> 20000, q_mvar |-> 0, bus |-> 3],
     [p_mw |-> 20000, q_mvar |-> 0, bus |-> 4],
     [p_mw |-> 30000, q_mvar |-> 0, bus |-> 5],
     [p_mw |-> 30000, q_mvar |-> 0, bus |-> 6],
     [p_mw |-> 30000, q_mvar |-> 0, bus |-> 8],
     [p_mw |-> 30000, q_mvar |-> 0, bus |-> 9],
     [p_mw |-> 40000, q_mvar |-> 0, bus |-> 10],
     [p_mw |-> 10000, q_mvar |-> 0, bus |-> 11],
     [p_mw |-> 1500000, q_mvar |-> 0, bus |-> 7] >>

\* a device table of n rows made from a benchmark table: rows past its end
\* repeat its last row, and every p_mw is multiplied by k
VariantTable(base, n, k) ==
  [i \in 0..(n - 1) |->
     LET r == base[Min(i + 1, Len(base))]
     IN  [p_mw |-> k * r.p_mw, q_mvar |-> r.q_mvar, bus |-> r.bus]]

\* the networks the template constructor may return: the benchmark network
\* and perturbations of it in the number of rows and in the sign of p_mw
Templates ==
  { [load |-> VariantTable(CigreLoad, Len(CigreLoad) + dl, kl),
     sgen |-> VariantTable(CigreSgen, Len(CigreSgen) + ds, ks)] :
      dl \in (-ExtraRows)..ExtraRows, ds \in (-ExtraRows)..ExtraRows,
      kl \in {-1, 0, 1}, ks \in {-1, 0, 1} }

CigreTemplate ==
  [load |-> VariantTable(CigreLoad, Len(CigreLoad), 1),
   sgen |-> VariantTable(CigreSgen, Len(CigreSgen), 1)]

(***************************************************************************)
(* numpy's global random generator.  A generator is a deterministic step   *)
(* function on its state; which function numpy's generator computes is not *)
(* known to the model, so it is one of a family of congruential steps.     *)
(***************************************************************************)
Gens == { [a |-> 1, c |-> 1999], [a |-> 21, c |-> 7], [a |-> 1, c |-> 1],
          [a |-> 41, c |-> 1333] }

\* np.random.seed(k): the state is a function of the seed alone
NoReseed(cur, k) == cur

Reseed(cur, k) == k % DrawDen

RngStep(g, s) == (g.a * s + g.c) % DrawDen

\* np.random.random(n): the n successive states, each read as a draw
RECURSIVE Random(_, _, _)
Random(g, s, n) ==
  IF n = 0 THEN << >>
  ELSE LET s1 == RngStep(g, s) IN << s1 >> \o Random(g, s1, n - 1)

RngAfter(s, draws) == IF draws = << >> THEN s ELSE draws[Len(draws)]

\* .round(3) of the draw d / DrawDen, in thousandths, ties to even
Round3(d) ==
  LET n == d * Milli
      q == n \div DrawDen
      r == n % DrawDen
  IN  IF 2 * r < DrawDen THEN q
      ELSE IF 2 * r > DrawDen THEN q + 1
      ELSE IF q % 2 = 0 THEN q ELSE q + 1

(***************************************************************************)
(* The hard-coded lists of the function.                                   *)
(***************************************************************************)
\* lines 22-23 with the first two flags exchanged
ShiftedFlags ==
  << FALSE, TRUE, FALSE, FALSE, FALSE, FALSE, FALSE, FALSE, TRUE, FALSE, FALSE,
     FALSE, FALSE, FALSE, FALSE, FALSE, TRUE, TRUE >>

\* lines 22-23: which loads are dispatchable, by position in the load table
ControllableFlags ==
  << TRUE, FALSE, FALSE, FALSE, FALSE, FALSE, FALSE, FALSE, TRUE, FALSE, FALSE,
     FALSE, FALSE, FALSE, FALSE, FALSE, TRUE, TRUE >>

\* ['x'] * n
RECURSIVE Repeat(_, _)
Repeat(x, n) == IF n <= 0 THEN << >> ELSE << x >> \o Repeat(x, n - 1)

\* lines 70-71: types = ['PV']*number_of_pvs, extended by ['Box']*number_of_box
Types == Repeat("PV", number_of_pvs) \o Repeat("Box", number_of_box)

(***************************************************************************)
(* pandas assignments.                                                     *)
(***************************************************************************)
\* df[col] = vals for the rows of vals (a function from row labels to cells);
\* the other cells of the column keep their value, and a new column is NaN
\* there
SetCells(df, col, vals) ==
  [i \in DOMAIN df |->
     IF i \in DOMAIN vals THEN (col :> vals[i]) @@ df[i] ELSE df[i]]

\* df[col].loc[...] = vals and df[col][mask] = vals: an assignment through the
\* intermediate Series df[col].  It writes through to df where pandas hands
\* out a view, and is lost where pandas hands out a copy (copy-on-write).
Chained(old, new) == IF cow THEN old ELSE new

\* a list assigned to a slice must have the length of the slice, a list
\* assigned as a column the length of the table
AnyLength(rows, values) == TRUE

SliceFits(rows, values) == Cardinality(rows) = Len(values)

ColumnFits(df, values) == NRows(df) = Len(values)

\* the k-th value (0-based) of a list assigned positionally
ListCell(list, k) == IF k + 1 \in DOMAIN list THEN list[k + 1] ELSE NaN

\* rows .loc[:n-1] and .loc[n:] of a table (label slices, both ends included)
RowsUpTo(df, last) == { i \in DOMAIN df : i <= last }

RowsFrom(df, first) == { i \in DOMAIN df : i >= first }

\* the labels of the rows of the load table selected by the boolean mask
\* net.load['controllable'], in table order
RECURSIVE MaskedFrom(_, _)
MaskedFrom(load, i) ==
  IF i \notin DOMAIN load THEN << >>
  ELSE (IF load[i].controllable THEN << i >> ELSE << >>) \o MaskedFrom(load, i + 1)

Masked(load) == MaskedFrom(load, 0)

\* line 29: (net.load['controllable'] == True).sum()
NumberOfDispatchableLoads(load) == Cardinality({ i \in DOMAIN load : load[i].controllable })

(***************************************************************************)
(* The arithmetic of the function.                                         *)
(***************************************************************************)
RECURSIVE IsqrtIn(_, _, _)
IsqrtIn(n, lo, hi) ==
  IF lo >= hi THEN lo
  ELSE LET mid == (lo + hi + 1) \div 2
       IN  IF mid * mid <= n THEN IsqrtIn(n, mid, hi) ELSE IsqrtIn(n, lo, mid - 1)

Isqrt(n) == IsqrtIn(n, 0, 2 ^ 15)

\* lines 58-59: cos(arctan(q / p)) = |p| / sqrt(p^2 + q^2), in thousandths
\* (rounded down); 0/0 is nan, and q/0 is +-inf, whose arctan has cosine 0.
\* p and q are first scaled to at most 10000 to keep the squares in range.
PowerFactor(p, q) ==
  IF p = 0 /\ q = 0 THEN NaN
  ELSE LET scale == Max(Abs(p), Abs(q)) \div 10000 + 1
           pn == Abs(p) \div scale
           qn == Abs(q) \div scale
       IN  (Milli * pn) \div Isqrt(pn * pn + qn * qn)

\* lines 52-55: p_mw / 2
NegatedHalf(p) == -(p \div 2)

LoadQuantity(p) == p \div 2

\* line 65: 1.1 * p_mw;  line 66: p_mw
SgenUpQuantity(p) == (11 * p) \div 10

SgenDownQuantity(p) == p

\* line 85: 90 + 20 * r;  line 88: 100 - 20 * r  (r and the cost in thousandths)
UpCostFromDownBase(r) == 100 * Milli + 20 * r

UpCost(r) == 90 * Milli + 20 * r

DownCost(r) == 100 * Milli - 20 * r

\* line 80: {'q_min': -1 - f, 'q_max': 1 + f}, in thousandths
BoxInfo(f) == [q_min |-> -Milli - f, q_max |-> Milli + f]

\* line 44-46: index=list(range(number_of_dispatchable_loads + len(net.sgen)))
ShortIndex(n, m) == 0..(n + m - 2)

FlexibilityIndex(n, m) == 0..(n + m - 1)

NaNRow ==
  [element |-> NaN, et |-> "NaN", up_quantity |-> NaN, up_cost |-> NaN,
   down_quantity |-> NaN, down_cost |-> NaN, FPU_type |-> "NaN", FPU_info |-> NaNInfo]

NoTable == << >>

\* lines 92, 98, 105: getattr(net, x['et']).loc[x['element']][col]
Lookup(n, row, col) ==
  IF row.et = "load" THEN n.load[row.element][col] ELSE n.sgen[row.element][col]

\* lines 95, 101: df[col][df['et'] == 'load'] *= -1
NoInvert(df, col) == df

InvertLoadRows(df, col) ==
  SetCells(df, col, [i \in { j \in DOMAIN df : df[j].et = "load" } |-> -(df[i][col])])

\* line 48: net.load[net.load['controllable']].index
FirstLabels(load) == [k \in 1..NumberOfDispatchableLoads(load) |-> k - 1]

LoadElements(load) == Masked(load)

(***************************************************************************)
(* The state after the module is loaded and before test_case4 is called:   *)
(* the template the library will return, the random generator numpy was    *)
(* built with, the state earlier code left it in, and whether the pandas   *)
(* in use is copy-on-write.                                                *)
(***************************************************************************)
Init ==
  /\ pc = "L13"
  /\ net = [load |-> << >>, sgen |-> << >>]
  /\ flexibility = NoTable
  /\ template \in Templates
  /\ gen \in Gens
  /\ rng \in 0..MaxLeftover
  /\ cow \in BOOLEAN
  /\ returned = << >>
  /\ err = "none"

Raise(line) ==
  /\ pc' = "failed"
  /\ err' = line
  /\ UNCHANGED <<net, flexibility, rng, gen, cow, template, returned>>

n_disp == NumberOfDispatchableLoads(net.load)

\* line 13: net = pn.create_cigre_network_mv(with_der="pv_wind")
CreateNetwork ==
  /\ pc = "L13"
  /\ net' = template
  /\ pc' = "L19"
  /\ UNCHANGED <<flexibility, rng, gen, cow, template, returned, err>>

\* line 19: net.sgen['p_mw'].iloc[:-1] *= 30
ScaleGeneration ==
  /\ pc = "L19"
  /\ LET last == NRows(net.sgen) - 1
         scaled == [i \in DOMAIN net.sgen |->
                      IF i < last
                      THEN [net.sgen[i] EXCEPT !.p_mw = GenScale * @]
                      ELSE net.sgen[i]]
     IN  net' = [net EXCEPT !.sgen = Chained(net.sgen, scaled)]
  /\ pc' = "L22"
  /\ UNCHANGED <<flexibility, rng, gen, cow, template, returned, err>>

\* lines 22-23: net.load['controllable'] = [True, False, ...]
SetControllable ==
  /\ pc = "L22"
  /\ IF ColumnFits(net.load, ControllableFlags)
     THEN /\ net' = [net EXCEPT !.load =
                       SetCells(net.load, "controllable",
                                [i \in DOMAIN net.load |-> ListCell(ControllableFlags, i)])]
          /\ pc' = "L44"
          /\ UNCHANGED <<flexibility, rng, gen, cow, template, returned, err>>
     ELSE Raise("L22")

\* lines 29, 44-46: net.flexibility = pd.DataFrame(columns=[...], index=...)
CreateFlexibility ==
  /\ pc = "L44"
  /\ flexibility' = [i \in FlexibilityIndex(n_disp, NRows(net.sgen)) |-> NaNRow]
  /\ pc' = "L48"
  /\ UNCHANGED <<net, rng, gen, cow, template, returned, err>>

\* lines 48-60: the rows of the controllable loads
FillLoads ==
  /\ pc = "L48"
  /\ LET rows == RowsUpTo(flexibility, n_disp - 1)
         elems == LoadElements(net.load)
         sel == Masked(net.load)
         f1 == SetCells(flexibility, "element", [i \in rows |-> elems[i + 1]])
         f2 == SetCells(f1, "et", [i \in rows |-> "load"])
         f3 == SetCells(f2, "up_quantity",
                        [i \in rows |-> LoadQuantity(net.load[sel[i + 1]].p_mw)])
         f4 == SetCells(f3, "down_quantity",
                        [i \in rows |-> LoadQuantity(net.load[sel[i + 1]].p_mw)])
         f5 == SetCells(f4, "FPU_type", [i \in rows |-> "load"])
         f6 == SetCells(f5, "FPU_info",
                        [i \in rows |->
                           [pf |-> PowerFactor(net.load[sel[i + 1]].p_mw,
                                               net.load[sel[i + 1]].q_mvar)]])
     IN  flexibility' = Chained(flexibility, f6)
  /\ pc' = "L63"
  /\ UNCHANGED <<net, rng, gen, cow, template, returned, err>>

\* lines 63-66: the rows of the generators
FillSgens ==
  /\ pc = "L63"
  /\ LET rows == RowsFrom(flexibility, n_disp)
         f1 == SetCells(flexibility, "element", [i \in rows |-> i - n_disp])
         f2 == SetCells(f1, "et", [i \in rows |-> "sgen"])
         f3 == SetCells(f2, "up_quantity",
                        [i \in rows |-> SgenUpQuantity(net.sgen[i - n_disp].p_mw)])
         f4 == SetCells(f3, "down_quantity",
                        [i \in rows |-> SgenDownQuantity(net.sgen[i - n_disp].p_mw)])
     IN  flexibility' = Chained(flexibility, f4)
  /\ pc' = "L67"
  /\ UNCHANGED <<net, rng, gen, cow, template, returned, err>>

\* lines 67-72: net.flexibility['FPU_type'].loc[n:] = types
SetTypes ==
  /\ pc = "L67"
  /\ number_of_box + number_of_pvs = 9
  /\ LET rows == RowsFrom(flexibility, n_disp)
     IN  IF SliceFits(rows, Types)
         THEN /\ flexibility' =
                   Chained(flexibility,
                           SetCells(flexibility, "FPU_type",
                                    [i \in rows |-> ListCell(Types, i - n_disp)]))
              /\ pc' = "L75"
              /\ UNCHANGED <<net, rng, gen, cow, template, returned, err>>
         ELSE Raise("L72")

\* lines 75-81: the power factors of the PVs and the reactive-power boxes
SetInfo ==
  /\ pc = "L75"
  /\ LET rows == RowsFrom(flexibility, n_disp)
         pfs == Repeat(900, number_of_pvs)
         fuzz == Random(gen, Reseed(rng, 0), number_of_box)
         extra_info == [k \in 1..Len(pfs) |-> [pf |-> pfs[k]]]
                         \o [k \in 1..Len(fuzz) |-> BoxInfo(Round3(fuzz[k]))]
     IN  /\ rng' = RngAfter(Reseed(rng, 0), fuzz)
         /\ IF SliceFits(rows, extra_info)
            THEN /\ flexibility' =
                      Chained(flexibility,
                              SetCells(flexibility, "FPU_info",
                                       [i \in rows |->
                                          IF i - n_disp + 1 \in DOMAIN extra_info
                                          THEN extra_info[i - n_disp + 1]
                                          ELSE NaNInfo]))
                 /\ pc' = "L84"
                 /\ err' = err
            ELSE /\ pc' = "failed"
                 /\ err' = "L81"
                 /\ flexibility' = flexibility
  /\ UNCHANGED <<net, gen, cow, template, returned>>

\* lines 84-85: net.flexibility['up_cost'] = 90 + 20*random(len).round(3)
SetUpCost ==
  /\ pc = "L84"
  /\ LET draws == Random(gen, Reseed(rng, 1), NRows(flexibility))
     IN  /\ rng' = RngAfter(Reseed(rng, 1), draws)
         /\ flexibility' = SetCells(flexibility, "up_cost",
                                    [i \in DOMAIN flexibility |-> UpCost(Round3(draws[i + 1]))])
  /\ pc' = "L87"
  /\ UNCHANGED <<net, gen, cow, template, returned, err>>

\* lines 87-88: net.flexibility['down_cost'] = 100 - 20*random(len).round(3)
SetDownCost ==
  /\ pc = "L87"
  /\ LET draws == Random(gen, Reseed(rng, 2), NRows(flexibility))
     IN  /\ rng' = RngAfter(Reseed(rng, 2), draws)
         /\ flexibility' = SetCells(flexibility, "down_cost",
                                    [i \in DOMAIN flexibility |-> DownCost(Round3(draws[i + 1]))])
  /\ pc' = "L91"
  /\ UNCHANGED <<net, gen, cow, template, returned, err>>

\* getattr(net, x['et']) raises TypeError when et is not a string (a NaN cell)
Resolvable(df) == \A i \in DOMAIN df : df[i].et \in {"load", "sgen"}

\* one of lines 91-95, 97-101: the column of setpoints, negated on the loads
SetpointColumn(df, col, src) ==
  Chained(SetCells(df, col, [i \in DOMAIN df |-> Lookup(net, df[i], src)]),
          InvertLoadRows(SetCells(df, col, [i \in DOMAIN df |-> Lookup(net, df[i], src)]), col))

\* lines 91-95: p_setpoint
SetPSetpoint ==
  /\ pc = "L91"
  /\ IF Resolvable(flexibility)
     THEN /\ flexibility' = SetpointColumn(flexibility, "p_setpoint", "p_mw")
          /\ pc' = "L97"
          /\ UNCHANGED <<net, rng, gen, cow, template, returned, err>>
     ELSE Raise("L92")

\* lines 97-101: q_setpoint
SetQSetpoint ==
  /\ pc = "L97"
  /\ flexibility' = SetpointColumn(flexibility, "q_setpoint", "q_mvar")
  /\ pc' = "L104"
  /\ UNCHANGED <<net, rng, gen, cow, template, returned, err>>

\* lines 104-105: bus
SetBus ==
  /\ pc = "L104"
  /\ flexibility' = SetCells(flexibility, "bus",
                             [i \in DOMAIN flexibility |-> Lookup(net, flexibility[i], "bus")])
  /\ pc' = "L107"
  /\ UNCHANGED <<net, rng, gen, cow, template, returned, err>>

\* line 107: return net
Return ==
  /\ pc = "L107"
  /\ returned' = Append(returned, [load |-> net.load, sgen |-> net.sgen,
                                   flexibility |-> flexibility])
  /\ pc' = "done"
  /\ UNCHANGED <<net, flexibility, rng, gen, cow, template, err>>

\* test_case4() is called again in the same process: new local objects, the
\* global random generator in the state the previous call left
CallAgain ==
  /\ pc = "done"
  /\ Len(returned) < MaxRuns
  /\ pc' = "L13"
  /\ net' = [load |-> << >>, sgen |-> << >>]
  /\ flexibility' = NoTable
  /\ UNCHANGED <<rng, gen, cow, template, returned, err>>

Next ==
  \/ CreateNetwork
  \/ ScaleGeneration
  \/ SetControllable
  \/ CreateFlexibility
  \/ FillLoads
  \/ FillSgens
  \/ SetTypes
  \/ SetInfo
  \/ SetUpCost
  \/ SetDownCost
  \/ SetPSetpoint
  \/ SetQSetpoint
  \/ SetBus
  \/ Return
  \/ CallAgain

Spec == Init /\ [][Next]_vars

(***************************************************************************)
(* Properties.                                                             *)
(***************************************************************************)
Completed == pc = "done"

LoadRowsOf(df) == { i \in DOMAIN df : df[i].et = "load" }

SgenRowsOf(df) == { i \in DOMAIN df : df[i].et = "sgen" }

Flagged(load) == { i \in DOMAIN load : load[i].controllable }

\* C1: once the flexibility table exists it has exactly (number of loads
\* flagged controllable) + (number of generator units) rows, and after
\* test_case4 completes this is 4 + 9 = 13 rows.
C1_RowCount ==
  /\ flexibility # NoTable =>
       NRows(flexibility) = Cardinality(Flagged(net.load)) + NRows(net.sgen)
  /\ Completed =>
       /\ Cardinality(Flagged(net.load)) = 4
       /\ NRows(net.sgen) = 9
       /\ NRows(flexibility) = 13

C1_Witness == Completed /\ NRows(flexibility) = 13 /\ template = CigreTemplate

\* C2: in the returned table every row's (element, et) names one row of the
\* device table et: a load row an existing load flagged controllable, a
\* generator row an existing generator unit.
C2_ElementsResolve ==
  Completed =>
    \A i \in DOMAIN flexibility :
      LET row == flexibility[i]
      IN  \/ /\ row.et = "load"
             /\ Cardinality({ j \in DOMAIN net.load : j = row.element }) = 1
             /\ net.load[row.element].controllable
          \/ /\ row.et = "sgen"
             /\ Cardinality({ j \in DOMAIN net.sgen : j = row.element }) = 1

C2_Witness ==
  /\ Completed
  /\ \E i \in DOMAIN flexibility : flexibility[i].et = "load" /\ flexibility[i].element = 16
  /\ \E i \in DOMAIN flexibility : flexibility[i].et = "sgen" /\ flexibility[i].element = 8

\* C3: in the returned table the setpoints of a load row are the negatives of
\* the load's p_mw and q_mvar, those of a generator row are the generator's
\* p_mw and q_mvar, and the load table still holds the template's values.
C3_SignConvention ==
  Completed =>
    /\ \A i \in LoadRowsOf(flexibility) :
         /\ flexibility[i].p_setpoint = -(net.load[flexibility[i].element].p_mw)
         /\ flexibility[i].q_setpoint = -(net.load[flexibility[i].element].q_mvar)
    /\ \A i \in SgenRowsOf(flexibility) :
         /\ flexibility[i].p_setpoint = net.sgen[flexibility[i].element].p_mw
         /\ flexibility[i].q_setpoint = net.sgen[flexibility[i].element].q_mvar
    /\ \A j \in DOMAIN net.load :
         /\ net.load[j].p_mw = template.load[j].p_mw
         /\ net.load[j].q_mvar = template.load[j].q_mvar
    /\ \A j \in DOMAIN net.sgen :
         /\ net.sgen[j].p_mw =
              (IF j < NRows(net.sgen) - 1 THEN GenScale ELSE 1) * template.sgen[j].p_mw
         /\ net.sgen[j].q_mvar = template.sgen[j].q_mvar

C3_Witness ==
  /\ Completed
  /\ \E i \in LoadRowsOf(flexibility) :
       flexibility[i].p_setpoint < 0 /\ flexibility[i].q_setpoint < 0
  /\ \E i \in SgenRowsOf(flexibility) : flexibility[i].p_setpoint > 0

\* every draw d/DrawDen of [0,1) gives costs within the bounds
AllDrawsInBounds ==
  \A d \in 0..(DrawDen - 1) :
    /\ UpCost(Round3(d)) \in (90 * Milli)..(110 * Milli)
    /\ DownCost(Round3(d)) \in (80 * Milli)..(100 * Milli)

\* C4: in the returned table every up_cost lies in [90, 110] and every
\* down_cost in [80, 100], whatever the draws, and every row has both.
C4_CostBounds ==
  /\ AllDrawsInBounds
  /\ Completed =>
       \A i \in DOMAIN flexibility :
         /\ flexibility[i].up_cost \in (90 * Milli)..(110 * Milli)
         /\ flexibility[i].down_cost \in (80 * Milli)..(100 * Milli)

C4_Witness ==
  /\ Completed
  /\ \E i \in DOMAIN flexibility : flexibility[i].up_cost = 110 * Milli
  /\ \E i \in DOMAIN flexibility : flexibility[i].down_cost = 80 * Milli
  /\ \E i \in DOMAIN flexibility : flexibility[i].up_cost = 90 * Milli

NonNegativeDevices ==
  /\ \A j \in DOMAIN template.load : template.load[j].p_mw >= 0
  /\ \A j \in DOMAIN template.sgen : template.sgen[j].p_mw >= 0

\* C5: given device tables whose p_mw are non-negative, every up_quantity and
\* down_quantity of the returned table is non-negative.
C5_QuantitiesNonNegative ==
  (Completed /\ NonNegativeDevices) =>
    \A i \in DOMAIN flexibility :
      flexibility[i].up_quantity >= 0 /\ flexibility[i].down_quantity >= 0

C5_Witness ==
  /\ Completed
  /\ NonNegativeDevices
  /\ \E i \in LoadRowsOf(flexibility) : flexibility[i].up_quantity > 0
  /\ \E i \in SgenRowsOf(flexibility) : flexibility[i].down_quantity > 0

\* C6: test_case4 is deterministic: the calls made in one process return
\* identical flexibility tables, and the random columns are those the seeds
\* 0, 1 and 2 give, whatever state the generator was left in.
C6_Deterministic ==
  /\ \A i, j \in DOMAIN returned : returned[i].flexibility = returned[j].flexibility
  /\ \A r \in DOMAIN returned :
       LET f == returned[r].flexibility
           n == Cardinality(LoadRowsOf(f))
       IN  \A i \in DOMAIN f :
             /\ f[i].up_cost = 90 * Milli + 20 * Round3(Random(gen, 1 % DrawDen, NRows(f))[i + 1])
             /\ f[i].down_cost = 100 * Milli - 20 * Round3(Random(gen, 2 % DrawDen, NRows(f))[i + 1])
             /\ f[i].et = "sgen" =>
                  f[i].FPU_info.q_max = Milli + Round3(Random(gen, 0, 9)[i - n + 1])

C6_Witness ==
  /\ Len(returned) = 2
  /\ NRows(returned[1].flexibility) = 13
  /\ NRows(returned[2].flexibility) = 13

\* C7: a template whose load table has not 18 rows makes test_case4 fail at
\* line 22, one whose generator table has not 9 rows at line 72; a returned
\* table has a type and an info in every row, the generators' in list order.
C7_MismatchFails ==
  /\ NRows(template.load) # 18 =>
       /\ pc \in {"L13", "L19", "L22", "failed"}
       /\ pc = "failed" => err = "L22"
  /\ (NRows(template.load) = 18 /\ NRows(template.sgen) # 9) =>
       /\ pc \in {"L13", "L19", "L22", "L44", "L48", "L63", "L67", "failed"}
       /\ pc = "failed" => err = "L72"
  /\ Completed =>
       \A i \in DOMAIN flexibility :
         /\ flexibility[i].FPU_type # "NaN"
         /\ flexibility[i].FPU_info # NaNInfo
         /\ flexibility[i].et = "sgen" =>
              flexibility[i].FPU_type = Types[flexibility[i].element + 1]

C7_Witness == pc = "failed" /\ err = "L72" /\ NRows(template.sgen) = 10 /\ ~cow

C7_WitnessLoad == pc = "failed" /\ err = "L22" /\ NRows(template.load) = 17

\* C8: no two rows of the returned table have the same bus, and no device
\* appears in two rows.
C8_OneFpuPerBus ==
  Completed =>
    \A i, j \in DOMAIN flexibility :
      i # j =>
        /\ flexibility[i].bus # flexibility[j].bus
        /\ <<flexibility[i].et, flexibility[i].element>>
             # <<flexibility[j].et, flexibility[j].element>>

C8_Witness ==
  /\ Completed
  /\ { flexibility[i].bus : i \in DOMAIN flexibility } = 1..14 \ {2}

\* C9: in the table returned for the benchmark network every generator row's
\* down_quantity equals its p_setpoint (p_mw after the x30 scaling of all
\* generators but the last), and the p_setpoint is the largest output the
\* row's quantities allow, that is, there is no upward quantity.
C9_GeneratorsAtMaximum ==
  (Completed /\ template = CigreTemplate) =>
    \A i \in SgenRowsOf(flexibility) :
      /\ flexibility[i].down_quantity = flexibility[i].p_setpoint
      /\ flexibility[i].p_setpoint - flexibility[i].down_quantity = 0
      /\ flexibility[i].p_setpoint + flexibility[i].up_quantity <= flexibility[i].p_setpoint

\* C10: in the table returned for the benchmark network every generator row
\* has FPU_type "PV" and a 'pf' entry, 0.9 for the PV units and 0.95 for the
\* wind unit (the last generator), and every load row has FPU_type "load"
\* and a 'pf' entry computed from its own q_mvar / p_mw.
C10_PowerFactorInfo ==
  (Completed /\ template = CigreTemplate) =>
    /\ \A i \in SgenRowsOf(flexibility) :
         /\ flexibility[i].FPU_type = "PV"
         /\ "pf" \in DOMAIN flexibility[i].FPU_info
         /\ flexibility[i].FPU_info.pf =
              (IF flexibility[i].element = NRows(net.sgen) - 1 THEN 950 ELSE 900)
    /\ \A i \in LoadRowsOf(flexibility) :
         /\ flexibility[i].FPU_type = "load"
         /\ "pf" \in DOMAIN flexibility[i].FPU_info
         /\ flexibility[i].FPU_info.pf =
              PowerFactor(net.load[flexibility[i].element].p_mw,
                          net.load[flexibility[i].element].q_mvar)

====
